---------------------------- MODULE Spec2Model ----------------------------
(***************************************************************************)
(* Webhook event delivery subsystem of whatsapiGo, and the call            *)
(* auto-reject policy that consumes the same events.                       *)
(*                                                                         *)
(* Two code layers share one database (tables webhook_configs,             *)
(* webhook_metrics, webhook_logs):                                         *)
(*   - services.WebhookService     (dispatcher, retry loop, metrics)       *)
(*   - controllers.WebhookController (registry CRUD, test, manual replay)  *)
(* Every HTTP handler of the controller is one action.  A delivery task    *)
(* (one goroutine of WebhookService.sendWebhookEvent) advances by one      *)
(* database statement per step, so that its statements interleave with     *)
(* the handlers and with the other tasks as they do in the program.        *)
(***************************************************************************)
EXTENDS Integers, Sequences, FiniteSets, TLC

VARIABLES
    webhooks,   \* table webhook_configs: set of rows
    metrics,    \* table webhook_metrics: set of rows (primary key id)
    logs,       \* table webhook_logs: function event_id -> row
    tasks,      \* goroutines of WebhookService.sendWebhookEvent: id -> frame
    wire,       \* the delivery attempts made by the last step, with what was sent
    resp,       \* the response written by the last step (NoResp: the step was no handler)
    nextId,     \* allocation of uuids and primary keys
    callConfigs, \* table call_reject_configs: set of rows
    calls       \* what the last step did about a call: evaluator outcome, reject actions

vars == <<webhooks, metrics, logs, tasks, wire, resp, nextId, callConfigs, calls>>

\* The call policy shares no table with webhook delivery.
callVars == <<callConfigs, calls>>

-----------------------------------------------------------------------------
(* Bounds of the model *)

MaxAdds == 1        \* AddWebhook calls that create a row
MaxEvents == 1      \* recognized events handed to processEvent
MaxTasks == 2       \* delivery tasks started by processEvent
MaxAttemptCount == 5 \* RetryEvent is not called on a record that has reached it
MaxMetricRows == 3  \* rows ever inserted into webhook_metrics

(* Program constants *)

MaxWebhooksPerInstance == 10
DefaultMaxRetries == 5
DefaultTimeout == 30

Instances == {"i1", "i2"}
PrimaryID == "primary"

NoHeader == <<>>    \* a request that was never built carries no header
NoError == ""
NoEvent == <<"ev", 0, "">>

\* Raw protocol events the client hands to the event handler; "Unknown"
\* stands for every event type outside the switch.
RawEvents == {"Message", "CallOffer", "Unknown"}

\* How the subscriber's endpoint behaves when a request reaches it.
EndpointBehaviours == {"ok200", "err500", "refused"}

-----------------------------------------------------------------------------
(* JSON text columns.  json.Marshal of a []string gives a JSON array, of a  *)
(* gin.H a JSON object; json.Unmarshal into a []string succeeds only on    *)
(* an array.                                                                *)

MarshalStrings(seq) == [kind |-> "array", items |-> seq]

\* json.Marshal(gin.H{"event_types": ..., "contact_filter": ..., ...}): a
\* JSON object; items is its event_types member.
MarshalFilters(eventTypes) == [kind |-> "object", items |-> eventTypes]

UnmarshalStrings(text) ==
    IF text.kind = "array" THEN [ok |-> TRUE, items |-> text.items]
    ELSE [ok |-> FALSE, items |-> <<>>]

-----------------------------------------------------------------------------
(* Signature and the two executors *)

\* json.Marshal of the payload map and its inverse.
MarshalPayload(payload) == <<"json", payload>>

UnmarshalPayload(text) == text[2]

\* hmac.New(sha256.New, secret); mac.Write(body); mac.Sum(nil): an ideal
\* keyed hash, injective in (secret, body).
HmacSha256(secret, body) == <<"hmac-sha256", secret, body>>

HexEncode(bytes) == <<"hex", bytes>>

SignatureHeader(secret, body) == <<"sha256=", HexEncode(HmacSha256(secret, body))>>

\* What a receiver holding `secret` does with a request.
ReceiverAccepts(secret, body, header) == header = SignatureHeader(secret, body)

\* WebhookController.sendWebhookEvent: one signed POST, no retry.
ControllerSend(webhook, payload, ep) ==
    LET body == MarshalPayload(payload)
        signature == SignatureHeader(webhook.secret, body)
        status == CASE ep = "ok200"   -> 200
                    [] ep = "err500"  -> 500
                    [] ep = "refused" -> 0
    IN  IF ep = "refused"
        THEN [success |-> FALSE, status |-> 0, err |-> "error sending request",
              header |-> signature, body |-> body]
        ELSE [success |-> status >= 200 /\ status < 300, status |-> status,
              err |-> NoError, header |-> signature, body |-> body]

\* WebhookService.doHTTPRequest: logs "Simulando envio de webhook" and
\* returns true, 200, nil.  No request is built, nothing reaches the
\* endpoint, whatever the endpoint would answer.
doHTTPRequest(webhook, payload, ep) ==
    [success |-> TRUE, status |-> 200, err |-> NoError,
     header |-> NoHeader, body |-> MarshalPayload(payload)]

\* time.Duration is an int64 count of nanoseconds: 64 bits, two's
\* complement, bit 0 the least significant, bit 63 the sign.
DurationBits == 64

NanosPerSecond == 1000000000

ToDuration(n) ==
    [b \in 0..(DurationBits - 1) |-> IF b <= 30 THEN (n \div (2 ^ b)) % 2 ELSE 0]

\* d * time.Duration(1 << k): the product keeps the low 64 bits.  A shift
\* count of 64 or more makes 1 << k zero, which the same rule gives.
MulPow2(d, k) ==
    [b \in 0..(DurationBits - 1) |-> IF b >= k THEN d[b - k] ELSE 0]

RECURSIVE UnsignedGreaterFrom(_, _, _)
UnsignedGreaterFrom(a, b, bit) ==
    IF bit < 0 THEN FALSE
    ELSE IF a[bit] # b[bit] THEN a[bit] > b[bit]
    ELSE UnsignedGreaterFrom(a, b, bit - 1)

\* a > b on int64
DurationGreater(a, b) ==
    LET sign == DurationBits - 1
    IN  IF a[sign] # b[sign] THEN b[sign] = 1
        ELSE UnsignedGreaterFrom(a, b, sign - 1)

Second == ToDuration(NanosPerSecond)

\* uint(attempt-1): a negative int converts to a count of 2^64 - |n|,
\* far above 64.
ShiftCount(attempt) == IF attempt - 1 < 0 THEN DurationBits ELSE attempt - 1

MaxBackoff == MulPow2(Second, 5)    \* 32 * time.Second

\* WebhookService.calculateBackoff
calculateBackoff(attempt) ==
    LET baseDelay == Second
        backoffTime == MulPow2(baseDelay, ShiftCount(attempt))
    IN  IF DurationGreater(backoffTime, MaxBackoff) THEN MaxBackoff ELSE backoffTime

-----------------------------------------------------------------------------
(* Rows and requests *)

Resp(op, code) == [op |-> op, code |-> code, secret |-> ""]

\* A response whose Data carries "secret"
RespWithSecret(op, code, secret) == [Resp(op, code) EXCEPT !.secret = secret]

NoResp == Resp("", 0)

\* No call has been handled.
NoCall == [instance_id |-> "", caller |-> "", at |-> 0, decision |-> "",
           message |-> "", rejects |-> {}]

\* A step that handles no call.
NoCallStep ==
    /\ callConfigs' = callConfigs
    /\ calls' = NoCall

WebhooksOf(inst) == {w \in webhooks : w.instance_id = inst}

FindWebhook(inst, wid) == {w \in webhooks : w.instance_id = inst /\ w.webhook_id = wid}

\* gorm unique index on webhook_configs.webhook_id
WebhookIdTaken(wid) == \E w \in webhooks : w.webhook_id = wid

NewMetricsRow(id, wid, inst) ==
    [id |-> id, webhook_id |-> wid, instance_id |-> inst,
     total_sent |-> 0, total_success |-> 0, total_failed |-> 0,
     avg_response_time |-> 0]

\* wc.generateSecret(): 32 random bytes, hex encoded
GeneratedSecrets == {"gen1"}

-----------------------------------------------------------------------------
(* Subscription registry: handlers of WebhookController *)

\* ShouldBindJSON: url is `binding:"required,url"`
BindOK(req) == req.url # ""

WithDefault(n, d) == IF n = 0 THEN d ELSE n

\* db.Create(&metrics) after a subscription is created
CreateMetrics(wid, inst) ==
    /\ metrics' = metrics \cup {NewMetricsRow(nextId.metric, wid, inst)}
    /\ nextId' = [nextId EXCEPT !.metric = @ + 1]

\* ConfigureWebhook - POST /webhooks/{instanceId}/configure
ConfigureWebhook(inst, req) ==
    /\ UNCHANGED <<logs, tasks>>
    /\ wire' = {}
    /\ IF ~BindOK(req)
       THEN /\ resp' = Resp("ConfigureWebhook", 400)
            /\ UNCHANGED <<webhooks, metrics, nextId>>
       ELSE \E gen \in GeneratedSecrets :
            LET secret == IF req.secret = "" THEN gen ELSE req.secret
                maxRetries == WithDefault(req.max_retries, DefaultMaxRetries)
                timeout == WithDefault(req.timeout, DefaultTimeout)
                eventsJSON == MarshalStrings(req.events)
                existing == FindWebhook(inst, PrimaryID)
            IN  IF existing = {}
                THEN IF WebhookIdTaken(PrimaryID)
                     THEN \* unique index: the insert fails
                          /\ resp' = Resp("ConfigureWebhook", 500)
                          /\ UNCHANGED <<webhooks, metrics, nextId>>
                     ELSE
                          /\ webhooks' = webhooks \cup
                                {[instance_id |-> inst, webhook_id |-> PrimaryID,
                                  url |-> req.url, secret |-> secret,
                                  events |-> eventsJSON, is_active |-> TRUE,
                                  max_retries |-> maxRetries, timeout |-> timeout]}
                          /\ CreateMetrics(PrimaryID, inst)
                          /\ resp' = RespWithSecret("ConfigureWebhook", 200, secret)
                ELSE LET old == CHOOSE w \in existing : TRUE
                     IN  /\ webhooks' = (webhooks \ {old}) \cup
                                {[old EXCEPT !.url = req.url, !.events = eventsJSON,
                                             !.max_retries = maxRetries,
                                             !.timeout = timeout, !.is_active = TRUE]}
                         /\ resp' = RespWithSecret("ConfigureWebhook", 200, secret)
                         /\ UNCHANGED <<metrics, nextId>>

\* uuid.New().String() for the n-th added subscription
HookUuid(n) == "wh" \o ToString(n)

\* AddWebhook - POST /webhooks/{instanceId}/add
AddWebhook(inst, req) ==
    /\ UNCHANGED <<logs, tasks>>
    /\ wire' = {}
    /\ IF ~BindOK(req)
       THEN /\ resp' = Resp("AddWebhook", 400)
            /\ UNCHANGED <<webhooks, metrics, nextId>>
       ELSE IF Cardinality(WebhooksOf(inst)) >= MaxWebhooksPerInstance
       THEN /\ resp' = Resp("AddWebhook", 400)
            /\ UNCHANGED <<webhooks, metrics, nextId>>
       ELSE \E gen \in GeneratedSecrets :
            LET webhookID == HookUuid(nextId.hook)
                secret == IF req.secret = "" THEN gen ELSE req.secret
            IN  /\ webhooks' = webhooks \cup
                      {[instance_id |-> inst, webhook_id |-> webhookID,
                        url |-> req.url, secret |-> secret,
                        events |-> MarshalStrings(req.events), is_active |-> TRUE,
                        max_retries |-> WithDefault(req.max_retries, DefaultMaxRetries),
                        timeout |-> WithDefault(req.timeout, DefaultTimeout)]}
                /\ metrics' = metrics \cup {NewMetricsRow(nextId.metric, webhookID, inst)}
                /\ nextId' = [nextId EXCEPT !.metric = @ + 1, !.hook = @ + 1]
                /\ resp' = Resp("AddWebhook", 201)

\* UpdateWebhook - PUT /webhooks/{instanceId}/{webhookId}
UpdateWebhook(inst, wid, req) ==
    /\ UNCHANGED <<metrics, logs, tasks, nextId>>
    /\ wire' = {}
    /\ LET found == FindWebhook(inst, wid)
       IN  IF found = {}
           THEN /\ resp' = Resp("UpdateWebhook", 404)
                /\ UNCHANGED webhooks
           ELSE LET old == CHOOSE w \in found : TRUE
                    w1 == IF req.url # "" THEN [old EXCEPT !.url = req.url] ELSE old
                    w2 == IF Len(req.events) > 0
                          THEN [w1 EXCEPT !.events = MarshalStrings(req.events)] ELSE w1
                    w3 == IF req.is_active # "nil"
                          THEN [w2 EXCEPT !.is_active = (req.is_active = "true")] ELSE w2
                    w4 == IF req.max_retries > 0
                          THEN [w3 EXCEPT !.max_retries = req.max_retries] ELSE w3
                    w5 == IF req.timeout > 0
                          THEN [w4 EXCEPT !.timeout = req.timeout] ELSE w4
                IN  /\ webhooks' = (webhooks \ {old}) \cup {w5}
                    /\ resp' = Resp("UpdateWebhook", 200)

DeleteWebhookKeepingLogs(inst, wid) ==
    /\ UNCHANGED <<tasks, nextId, logs>>
    /\ wire' = {}
    /\ IF wid = PrimaryID
       THEN /\ resp' = Resp("DeleteWebhook", 400)
            /\ UNCHANGED <<webhooks, metrics>>
       ELSE /\ webhooks' = {w \in webhooks : ~(w.instance_id = inst /\ w.webhook_id = wid)}
            /\ metrics' = {m \in metrics : ~(m.instance_id = inst /\ m.webhook_id = wid)}
            /\ resp' = Resp("DeleteWebhook", 200)

\* DeleteWebhook - DELETE /webhooks/{instanceId}/{webhookId}
DeleteWebhook(inst, wid) ==
    /\ UNCHANGED <<tasks, nextId>>
    /\ wire' = {}
    /\ IF wid = PrimaryID
       THEN /\ resp' = Resp("DeleteWebhook", 400)
            /\ UNCHANGED <<webhooks, metrics, logs>>
       ELSE \* one transaction: tx.Begin ... tx.Commit
            /\ webhooks' = {w \in webhooks : ~(w.instance_id = inst /\ w.webhook_id = wid)}
            /\ metrics' = {m \in metrics : ~(m.instance_id = inst /\ m.webhook_id = wid)}
            /\ logs' = [e \in {x \in DOMAIN logs :
                                 ~(logs[x].instance_id = inst /\ logs[x].webhook_id = wid)}
                          |-> logs[e]]
            /\ resp' = Resp("DeleteWebhook", 200)

\* ListWebhooks - GET /webhooks/{instanceId}: the rows it returns
ListWebhooks(inst) == {w \in webhooks : w.instance_id = inst}

\* ConfigureFilters - POST /webhooks/{instanceId}/filters
ConfigureFilters(inst, req) ==
    /\ UNCHANGED <<metrics, logs, tasks, nextId>>
    /\ wire' = {}
    /\ IF req.webhook_id = ""
       THEN /\ resp' = Resp("ConfigureFilters", 400)
            /\ UNCHANGED webhooks
       ELSE IF FindWebhook(inst, req.webhook_id) = {}
       THEN /\ resp' = Resp("ConfigureFilters", 404)
            /\ UNCHANGED webhooks
       ELSE LET old == CHOOSE w \in FindWebhook(inst, req.webhook_id) : TRUE
            IN  /\ webhooks' = (webhooks \ {old}) \cup
                       {[old EXCEPT !.events = MarshalFilters(req.event_types)]}
                /\ resp' = Resp("ConfigureFilters", 200)

-----------------------------------------------------------------------------
(* Dispatcher: WebhookService.processEvent *)

\* The default branch naming the event instead of returning
EventTypeOfDefaultNamed(raw) ==
    CASE raw = "Message"   -> "message.received"
      [] raw = "CallOffer" -> "call.incoming"
      [] OTHER             -> "unknown"

\* The type switch of processEvent; "" is the default branch (return).
EventTypeOf(raw) ==
    CASE raw = "Message"      -> "message.received"
      [] raw = "Receipt"      -> "message.receipt"
      [] raw = "CallOffer"    -> "call.incoming"
      [] raw = "GroupInfo"    -> "group.info"
      [] raw = "JoinedGroup"  -> "group.joined"
      [] raw = "Contact"      -> "contact.update"
      [] raw = "PushName"     -> "contact.pushname"
      [] raw = "Presence"     -> "contact.presence"
      [] raw = "Connected"    -> "instance.connected"
      [] raw = "Disconnected" -> "instance.disconnected"
      [] raw = "QR"           -> "instance.qr"
      [] raw = "PairSuccess"  -> "instance.paired"
      [] OTHER                -> ""

isEventConfiguredIgnoringFilter(webhook, eventType) == TRUE

\* WebhookService.isEventConfigured
isEventConfigured(webhook, eventType) ==
    LET parsed == UnmarshalStrings(webhook.events)
    IN  /\ parsed.ok
        /\ \E k \in 1..Len(parsed.items) :
              parsed.items[k] = eventType \/ parsed.items[k] = "*"

ActiveWebhooksIncludingInactive(inst) == {w \in webhooks : w.instance_id = inst}

\* db.Where("instance_id = ? AND is_active = ?", instanceID, true)
ActiveWebhooks(inst) == {w \in webhooks : w.instance_id = inst /\ w.is_active}

\* The subscriptions processEvent starts a goroutine for.
Matching(inst, eventType) ==
    {w \in ActiveWebhooks(inst) : isEventConfigured(w, eventType)}

EventPayload(inst, eventType, seq) ==
    [event |-> eventType, instance_id |-> inst, data |-> seq]

\* One uuid per envelope, shared by the tasks of its subscriptions
EventUuidPerEnvelope(seq, wid) == <<"ev", seq, "">>

\* uuid.New().String() in sendWebhookEvent, one per goroutine
EventUuid(seq, wid) == <<"ev", seq, wid>>

\* sendWebhookEvent called without `go`: the frame as the call leaves it
NewTaskAwaited(webhook, payload, seq) ==
    [webhook |-> webhook, payload |-> payload,
     eventID |-> EventUuid(seq, webhook.webhook_id),
     attempt |-> 1, pc |-> "done",
     log |-> [webhook_id |-> webhook.webhook_id, instance_id |-> webhook.instance_id,
              event_id |-> EventUuid(seq, webhook.webhook_id),
              event_type |-> payload.event, payload |-> MarshalPayload(payload),
              status_code |-> 200, attempt_count |-> 1, is_success |-> TRUE,
              error_message |-> NoError],
     success |-> TRUE,
     metrics |-> NewMetricsRow(0, "", ""),
     wait |-> ToDuration(0)]

NewTaskFromZero(webhook, payload, seq) ==
    [webhook |-> webhook, payload |-> payload,
     eventID |-> EventUuid(seq, webhook.webhook_id),
     attempt |-> 0, pc |-> "attempt",
     log |-> [webhook_id |-> webhook.webhook_id, instance_id |-> webhook.instance_id,
              event_id |-> EventUuid(seq, webhook.webhook_id),
              event_type |-> payload.event, payload |-> MarshalPayload(payload),
              status_code |-> 0, attempt_count |-> 0, is_success |-> FALSE,
              error_message |-> NoError],
     success |-> FALSE,
     metrics |-> NewMetricsRow(0, "", ""),
     wait |-> ToDuration(0)]

\* The frame of `go ws.sendWebhookEvent(webhook, payload)` at its first
\* statement: webhook and payload are passed by value.
NewTask(webhook, payload, seq) ==
    [webhook |-> webhook, payload |-> payload,
     eventID |-> EventUuid(seq, webhook.webhook_id),
     attempt |-> 1, pc |-> "attempt",
     log |-> [webhook_id |-> webhook.webhook_id, instance_id |-> webhook.instance_id,
              event_id |-> EventUuid(seq, webhook.webhook_id),
              event_type |-> payload.event, payload |-> MarshalPayload(payload),
              status_code |-> 0, attempt_count |-> 0, is_success |-> FALSE,
              error_message |-> NoError],
     success |-> FALSE,
     metrics |-> NewMetricsRow(0, "", ""),
     wait |-> ToDuration(0)]

processEvent(inst, raw) ==
    LET eventType == EventTypeOf(raw)
        seq == nextId.event
        started == Matching(inst, eventType)
    IN  /\ UNCHANGED <<webhooks, metrics, logs>>
        /\ wire' = {}
        /\ resp' = NoResp
        /\ IF eventType = ""
           THEN UNCHANGED <<tasks, nextId>>
           ELSE /\ tasks' = [t \in DOMAIN tasks \cup {<<seq, w.webhook_id>> : w \in started} |->
                               IF t \in DOMAIN tasks THEN tasks[t]
                               ELSE NewTask(CHOOSE w \in started : w.webhook_id = t[2],
                                            EventPayload(inst, eventType, seq), seq)]
                /\ nextId' = [nextId EXCEPT !.event = @ + 1]

-----------------------------------------------------------------------------
(* Metrics aggregator: updateWebhookMetrics of the service and of the       *)
(* controller (the same statements; the service reads with FirstOrCreate,  *)
(* the controller with First)                                              *)

MatchingMetrics(wid, inst) ==
    {m \in metrics : m.webhook_id = wid /\ m.instance_id = inst}

\* ORDER BY id LIMIT 1
FirstMetrics(wid, inst) ==
    CHOOSE m \in MatchingMetrics(wid, inst) :
        \A o \in MatchingMetrics(wid, inst) : m.id <= o.id

BumpForgettingTotalSent(m, success) ==
    IF success THEN [m EXCEPT !.total_success = @ + 1]
    ELSE [m EXCEPT !.total_failed = @ + 1]

\* float64(responseTime).  AvgResponseTime is kept in steps of 1/AvgScale
\* ms, which holds every value MaxSamples halvings of whole milliseconds
\* can produce, as float64 does.
MaxSamples == 4

AvgScale == 2 ^ (MaxSamples - 1)

ToFloat(responseTime) == responseTime * AvgScale

\* `if metrics.AvgResponseTime == 0 { = responseTime } else { = (avg + responseTime) / 2 }`
UpdateAvg(avg, responseTime) ==
    IF avg = 0 THEN ToFloat(responseTime)
    ELSE (avg + ToFloat(responseTime)) \div 2

\* metrics.TotalSent++; TotalSuccess++ or TotalFailed++; the average
UpdateCounters(m, success, responseTime) ==
    LET counted == IF success
                   THEN [m EXCEPT !.total_sent = @ + 1, !.total_success = @ + 1]
                   ELSE [m EXCEPT !.total_sent = @ + 1, !.total_failed = @ + 1]
    IN  [counted EXCEPT !.avg_response_time = UpdateAvg(@, responseTime)]

\* The update for an attempt measured at 0 ms, which is what
\* time.Since(startTime).Milliseconds() gives around the stub executor.
Bump(m, success) == UpdateCounters(m, success, 0)

\* db.Save(&row): UPDATE by primary key, INSERT when no row has it
SaveMetrics(table, row) == {m \in table : m.id # row.id} \cup {row}

\* WebhookService.updateWebhookMetrics run without interruption:
\* FirstOrCreate, the counters and the average, Save.
updateWebhookMetrics(wid, inst, success, responseTime) ==
    /\ UNCHANGED <<webhooks, logs, tasks>>
    /\ wire' = {}
    /\ resp' = NoResp
    /\ IF MatchingMetrics(wid, inst) # {}
       THEN /\ metrics' = SaveMetrics(metrics,
                   UpdateCounters(FirstMetrics(wid, inst), success, responseTime))
            /\ UNCHANGED nextId
       ELSE /\ metrics' = metrics \cup
                   {UpdateCounters(NewMetricsRow(nextId.metric, wid, inst),
                                   success, responseTime)}
            /\ nextId' = [nextId EXCEPT !.metric = @ + 1]

\* WebhookController.updateWebhookMetrics, called inside a handler.  First
\* leaves the zero struct when no row matches; Save of a struct whose
\* primary key is zero inserts it.
ControllerUpdateMetrics(wid, inst, success) ==
    IF MatchingMetrics(wid, inst) # {}
    THEN /\ metrics' = SaveMetrics(metrics, Bump(FirstMetrics(wid, inst), success))
         /\ UNCHANGED nextId
    ELSE /\ metrics' = metrics \cup {Bump(NewMetricsRow(nextId.metric, "", ""), success)}
         /\ nextId' = [nextId EXCEPT !.metric = @ + 1]

-----------------------------------------------------------------------------
(* Retry scheduler: one goroutine of WebhookService.sendWebhookEvent *)

Attempt(by, webhook, eventID, n, res) ==
    [by |-> by, webhook_id |-> webhook.webhook_id, event_id |-> eventID, n |-> n,
     secret |-> webhook.secret, body |-> res.body, header |-> res.header]

\* db.Create(&log) / db.Save(&log): the row of this event_id is written whole
SaveLog(table, row) ==
    [e \in DOMAIN table \cup {row.event_id} |->
        IF e = row.event_id THEN row ELSE table[e]]

\* The loop without `log.AttemptCount = attempt`
LoopLogForgettingCount(log, attempt, res) ==
    [log EXCEPT !.status_code = res.status,
                !.is_success = res.success,
                !.error_message = IF res.err # NoError THEN res.err ELSE @]

\* lines 282-294: the outcome of one attempt copied into the local log struct
LoopLog(log, attempt, res) ==
    [log EXCEPT !.attempt_count = attempt,
                !.status_code = res.status,
                !.is_success = res.success,
                !.error_message = IF res.err # NoError THEN res.err ELSE @]

\* `if success { return }`
LoopReturns(success) == success

LoopGuardDefaultRetries(attempt, maxRetries) == attempt <= DefaultMaxRetries

\* `attempt <= webhook.MaxRetries`
LoopGuard(attempt, maxRetries) == attempt <= maxRetries

\* FirstOrCreate inserts a row when this goroutine's subscription has none
NeedsMetricsRow(t) ==
    /\ tasks[t].pc = "metricsRead"
    /\ MatchingMetrics(tasks[t].webhook.webhook_id, tasks[t].webhook.instance_id) = {}

\* One step of the goroutine t.  With doHTTPRequest as it stands every
\* attempt reports success, so the branches "sleep" and "wake" are taken
\* only when the executor can fail.
sendWebhookEvent(t, ep) ==
    LET f == tasks[t]
        wid == f.webhook.webhook_id
        inst == f.webhook.instance_id
    IN  /\ f.pc # "done"
        /\ UNCHANGED webhooks
        /\ resp' = NoResp
        /\ CASE f.pc = "attempt" ->
                  IF LoopGuard(f.attempt, f.webhook.max_retries)
                  THEN LET res == doHTTPRequest(f.webhook, f.payload, ep)
                           log == LoopLog(f.log, f.attempt, res)
                       IN  /\ logs' = SaveLog(logs, log)
                           /\ wire' = {Attempt("loop", f.webhook, f.eventID, f.attempt, res)}
                           /\ tasks' = [tasks EXCEPT ![t] =
                                 [f EXCEPT !.log = log, !.success = res.success,
                                           !.pc = "metricsRead"]]
                           /\ UNCHANGED <<metrics, nextId>>
                  ELSE \* the loop is left: "Webhook fallo despues de todos los intentos"
                       /\ tasks' = [tasks EXCEPT ![t] = [f EXCEPT !.pc = "done"]]
                       /\ UNCHANGED <<metrics, logs, nextId>>
                       /\ wire' = {}
             [] f.pc = "metricsRead" ->
                  /\ IF MatchingMetrics(wid, inst) # {}
                     THEN /\ tasks' = [tasks EXCEPT ![t] =
                                [f EXCEPT !.metrics = FirstMetrics(wid, inst),
                                          !.pc = "metricsSave"]]
                          /\ UNCHANGED <<metrics, nextId>>
                     ELSE LET row == NewMetricsRow(nextId.metric, wid, inst)
                          IN  /\ metrics' = metrics \cup {row}
                              /\ nextId' = [nextId EXCEPT !.metric = @ + 1]
                              /\ tasks' = [tasks EXCEPT ![t] =
                                    [f EXCEPT !.metrics = row, !.pc = "metricsSave"]]
                  /\ UNCHANGED logs
                  /\ wire' = {}
             [] f.pc = "metricsSave" ->
                  /\ metrics' = SaveMetrics(metrics, Bump(f.metrics, f.success))
                  \* updateWebhookMetrics returns: its local struct is gone
                  /\ tasks' = [tasks EXCEPT ![t] =
                        [f EXCEPT !.pc = "decide", !.metrics = NewMetricsRow(0, "", "")]]
                  /\ UNCHANGED <<logs, nextId>>
                  /\ wire' = {}
             [] f.pc = "decide" ->
                  /\ tasks' = [tasks EXCEPT ![t] =
                        IF LoopReturns(f.success) THEN [f EXCEPT !.pc = "done"]
                        ELSE IF f.attempt < f.webhook.max_retries
                        THEN [f EXCEPT !.pc = "sleep", !.wait = calculateBackoff(f.attempt)]
                        ELSE [f EXCEPT !.attempt = @ + 1, !.pc = "attempt"]]
                  /\ UNCHANGED <<metrics, logs, nextId>>
                  /\ wire' = {}
             [] f.pc = "sleep" ->
                  /\ tasks' = [tasks EXCEPT ![t] =
                        [f EXCEPT !.attempt = @ + 1, !.pc = "attempt"]]
                  /\ UNCHANGED <<metrics, logs, nextId>>
                  /\ wire' = {}

-----------------------------------------------------------------------------
(* Manual replay and connectivity test: handlers of WebhookController *)

FindLog(inst, eventID) ==
    {e \in DOMAIN logs : e = eventID /\ logs[e].instance_id = inst}

\* The replay with the loop's `if err != nil` and no else branch
ReplayLogKeepingError(log, res) ==
    [log EXCEPT !.attempt_count = @ + 1,
                !.status_code = res.status,
                !.is_success = res.success,
                !.error_message = IF res.err # NoError THEN res.err ELSE @]

ReplayLogKeepingCount(log, res) ==
    [log EXCEPT !.status_code = res.status,
                !.is_success = res.success,
                !.error_message = res.err]

\* lines 766-777: log.AttemptCount++ and the outcome of the replayed attempt
ReplayLog(log, res) ==
    [log EXCEPT !.attempt_count = @ + 1,
                !.status_code = res.status,
                !.is_success = res.success,
                !.error_message = res.err]

ReplayRefusedNever(log) == FALSE

\* `if log.IsSuccess { 400 }`
ReplayRefused(log) == log.is_success

\* RetryEvent - POST /webhooks/{instanceId}/retry/{eventId}
RetryEvent(inst, eventID, ep) ==
    /\ UNCHANGED <<webhooks, tasks>>
    /\ IF FindLog(inst, eventID) = {}
       THEN /\ resp' = Resp("RetryEvent", 404)
            /\ UNCHANGED <<metrics, logs, nextId>>
            /\ wire' = {}
       ELSE IF ReplayRefused(logs[eventID])
       THEN /\ resp' = Resp("RetryEvent", 400)
            /\ UNCHANGED <<metrics, logs, nextId>>
            /\ wire' = {}
       ELSE IF FindWebhook(inst, logs[eventID].webhook_id) = {}
       THEN /\ resp' = Resp("RetryEvent", 404)
            /\ UNCHANGED <<metrics, logs, nextId>>
            /\ wire' = {}
       ELSE LET log == logs[eventID]
                webhook == CHOOSE w \in FindWebhook(inst, log.webhook_id) : TRUE
                payload == UnmarshalPayload(log.payload)
                res == ControllerSend(webhook, payload, ep)
                saved == ReplayLog(log, res)
            IN  /\ wire' = {Attempt("retry", webhook, eventID, saved.attempt_count, res)}
                /\ logs' = SaveLog(logs, saved)
                /\ IF res.success
                   THEN ControllerUpdateMetrics(webhook.webhook_id, inst, TRUE)
                   ELSE UNCHANGED <<metrics, nextId>>
                /\ resp' = Resp("RetryEvent", 200)

\* A replay that inserts a metrics row (no row of the subscription is left)
ReplayNeedsMetricsRow(inst, eventID) ==
    /\ FindLog(inst, eventID) # {}
    /\ MatchingMetrics(logs[eventID].webhook_id, inst) = {}

TestPayload(inst) == EventPayload(inst, "webhook.test", 0)

\* TestWebhook - POST /webhooks/{instanceId}/test
TestWebhook(inst, endpoint) ==
    /\ UNCHANGED <<webhooks, metrics, logs, tasks, nextId>>
    /\ IF ActiveWebhooks(inst) = {}
       THEN /\ resp' = Resp("TestWebhook", 404)
            /\ wire' = {}
       ELSE \E ep \in [ActiveWebhooks(inst) -> endpoint] :
            /\ wire' =
                  {Attempt("test", w, NoEvent, 0, ControllerSend(w, TestPayload(inst), ep[w])) :
                      w \in ActiveWebhooks(inst)}
            /\ resp' = Resp("TestWebhook", 200)

-----------------------------------------------------------------------------
(* Call auto-reject policy: WebhookService.handleAutoRejectCall and the     *)
(* /calls handlers of WebhookController                                    *)

\* A text column that was never written: the empty string.
EmptyText == [kind |-> "empty", items |-> <<>>]

\* json.Marshal of a map: a JSON object, here the sequence of its members.
MarshalObject(members) == [kind |-> "object", items |-> members]

\* The message of RejectCall when nothing else is given.
FallbackMessage == "Lo siento, no puedo atender llamadas en este momento."

\* db.Where("instance_id = ?", instanceID).First(&config)
CallConfigOf(inst) == {c \in callConfigs : c.instance_id = inst}

\* CallRejectConfig{InstanceID: instanceID}
NewCallConfig(inst) ==
    [instance_id |-> inst, auto_reject |-> FALSE, whitelist_numbers |-> EmptyText,
     custom_messages |-> EmptyText, schedule_enabled |-> FALSE,
     schedule_config |-> EmptyText]

\* db.Create(&config): gorm writes the column default of a field tagged
\* `default:` when the field holds its zero value (auto_reject default:true,
\* schedule_enabled default:false).
CreateCallConfig(config) ==
    [config EXCEPT !.auto_reject = IF @ = FALSE THEN TRUE ELSE @]

\* UpdateCallSettings - PUT /calls/{instanceId}/settings
UpdateCallSettings(inst, req) ==
    LET existing == CallConfigOf(inst)
        isNew == existing = {}
        old == IF isNew THEN NewCallConfig(inst) ELSE CHOOSE c \in existing : TRUE
        config ==
            [old EXCEPT
                !.auto_reject = req.auto_reject,
                !.whitelist_numbers =
                    IF req.whitelist_numbers.present
                    THEN MarshalStrings(req.whitelist_numbers.value) ELSE @,
                !.custom_messages =
                    IF req.custom_messages.present
                    THEN MarshalObject(req.custom_messages.value) ELSE @,
                !.schedule_enabled = req.schedule_enabled,
                !.schedule_config =
                    IF req.schedule_config.present
                    THEN MarshalObject(req.schedule_config.value) ELSE @]
    IN  /\ UNCHANGED <<webhooks, metrics, logs, tasks, nextId>>
        /\ wire' = {}
        /\ calls' = NoCall
        /\ callConfigs' = IF isNew THEN callConfigs \cup {CreateCallConfig(config)}
                          ELSE (callConfigs \ existing) \cup {config}
        /\ resp' = Resp("UpdateCallSettings", 200)

\* WebhookService.isNumberWhitelisted
isNumberWhitelisted(config, callerJID) ==
    IF config.whitelist_numbers.kind = "empty" THEN FALSE
    ELSE LET parsed == UnmarshalStrings(config.whitelist_numbers)
         IN  /\ parsed.ok
             /\ \E k \in 1..Len(parsed.items) : parsed.items[k] = callerJID

\* WebhookService.isWithinSchedule: every return statement returns true;
\* the schedule is parsed and never compared with the time.
isWithinSchedule(config) ==
    IF config.schedule_config.kind = "empty" THEN TRUE
    ELSE IF config.schedule_config.kind # "object" THEN TRUE
    ELSE TRUE

\* WebhookService.handleAutoRejectCall, called by processEvent for a
\* CallOffer at time `now`.  It writes log lines only: `decision` is the
\* branch it ends in, `rejects` the reject actions it hands to the
\* protocol client (client.RejectCall is a comment in the code).
handleAutoRejectCall(inst, callerJID, now) ==
    LET rows == CallConfigOf(inst)
        config == CHOOSE c \in rows : TRUE
        decision ==
            IF rows = {} THEN "no-policy"
            ELSE IF ~config.auto_reject THEN "disabled"
            ELSE IF isNumberWhitelisted(config, callerJID) THEN "whitelisted"
            ELSE IF config.schedule_enabled /\ ~isWithinSchedule(config)
            THEN "outside-schedule"
            ELSE "reject"
    IN  /\ callConfigs' = callConfigs
        /\ calls' = [instance_id |-> inst, caller |-> callerJID, at |-> now,
                     decision |-> decision, message |-> "", rejects |-> {}]

\* EventHandler: the callback registered with the protocol client.  It
\* runs processEvent, which runs handleAutoRejectCall for a CallOffer
\* before it dispatches the event to the subscriptions.
EventHandler(inst, raw, callerJID, now) ==
    /\ processEvent(inst, raw)
    /\ IF raw = "CallOffer"
       THEN handleAutoRejectCall(inst, callerJID, now)
       ELSE NoCallStep

\* customMessages["default"] of the stored policy, or the fallback
ResolveMessage(inst, requested) ==
    LET rows == CallConfigOf(inst)
        config == CHOOSE c \in rows : TRUE
    IN  IF requested # "" THEN requested
        ELSE IF rows = {} \/ config.custom_messages.kind # "object"
        THEN FallbackMessage
        ELSE LET members == config.custom_messages.items
                 hits == {k \in 1..Len(members) : members[k][1] = "default"}
             IN  IF hits = {} THEN FallbackMessage
                 ELSE members[CHOOSE k \in hits : TRUE][2]

\* RejectCall - POST /calls/{instanceId}/reject.  The call to the protocol
\* client is a comment in the code: the handler resolves the message,
\* logs it and answers 200.
RejectCall(inst, req) ==
    /\ UNCHANGED <<webhooks, metrics, logs, tasks, nextId>>
    /\ wire' = {}
    /\ callConfigs' = callConfigs
    /\ IF req.caller_id = ""
       THEN /\ resp' = Resp("RejectCall", 400)
            /\ calls' = NoCall
       ELSE /\ resp' = Resp("RejectCall", 200)
            /\ calls' = [instance_id |-> inst, caller |-> req.caller_id, at |-> 0,
                         decision |-> "manual",
                         message |-> ResolveMessage(inst, req.message),
                         rejects |-> {}]

-----------------------------------------------------------------------------
(* The system *)

EmptyLogs == [e \in {} |-> 0]

Init ==
    /\ webhooks = {}
    /\ metrics = {}
    /\ logs = EmptyLogs
    /\ tasks = EmptyLogs
    /\ wire = {}
    /\ resp = NoResp
    /\ nextId = [hook |-> 1, metric |-> 1, event |-> 1]
    /\ callConfigs = {}
    /\ calls = NoCall

WebhookIds == {w.webhook_id : w \in webhooks} \cup {PrimaryID}

\* Every operation of the system, its inputs drawn from the sets and
\* bounds of `in`.
NextOver(in) ==
    \/ \E inst \in in.instances, req \in in.configure :
          /\ FindWebhook(inst, PrimaryID) = {} => nextId.metric <= in.maxMetricRows
          /\ ConfigureWebhook(inst, req)
          /\ NoCallStep
    \/ \E inst \in in.instances, req \in in.add :
          /\ nextId.hook <= in.maxAdds
          /\ nextId.metric <= in.maxMetricRows
          /\ AddWebhook(inst, req)
          /\ NoCallStep
    \/ \E inst \in in.instances, wid \in WebhookIds, req \in in.update :
          /\ UpdateWebhook(inst, wid, req)
          /\ NoCallStep
    \/ \E inst \in in.instances, wid \in WebhookIds :
          /\ DeleteWebhook(inst, wid)
          /\ NoCallStep
    \/ \E inst \in in.instances, wid \in WebhookIds, eventTypes \in in.filters :
          /\ ConfigureFilters(inst, [webhook_id |-> wid, event_types |-> eventTypes])
          /\ NoCallStep
    \/ \E inst \in in.instances :
          /\ TestWebhook(inst, in.endpoint)
          /\ NoCallStep
    \/ \E inst \in in.instances, eventID \in DOMAIN logs \cup {NoEvent},
          ep \in in.endpoint :
          /\ eventID \in DOMAIN logs => logs[eventID].attempt_count < in.maxAttemptCount
          /\ ReplayNeedsMetricsRow(inst, eventID) => nextId.metric <= in.maxMetricRows
          /\ RetryEvent(inst, eventID, ep)
          /\ NoCallStep
    \/ \E inst \in in.instances, raw \in in.events, caller \in in.callers,
          now \in in.clock :
          /\ nextId.event <= in.maxEvents
          /\ Cardinality(DOMAIN tasks) + Cardinality(Matching(inst, EventTypeOf(raw)))
                <= in.maxTasks
          /\ EventHandler(inst, raw, caller, now)
    \/ \E t \in DOMAIN tasks, ep \in in.endpoint :
          /\ NeedsMetricsRow(t) => nextId.metric <= in.maxMetricRows
          /\ sendWebhookEvent(t, ep)
          /\ NoCallStep

Request(events, secret, maxRetries) ==
    [url |-> "http://h", events |-> events, secret |-> secret,
     max_retries |-> maxRetries, timeout |-> 0]

Update(events, isActive, maxRetries) ==
    [url |-> "", events |-> events, is_active |-> isActive,
     max_retries |-> maxRetries, timeout |-> 0]

MainInputs ==
    [instances |-> Instances,
     configure |-> {Request(<<"*">>, "s1", 3)},
     add       |-> {Request(<<"message.received">>, "s2", 0)},
     update    |-> {Update(<<>>, "false", 0)},
     filters   |-> {<<"*">>},
     callers   |-> {"X"},
     clock     |-> {10},
     events    |-> RawEvents,
     endpoint  |-> EndpointBehaviours,
     maxAdds |-> MaxAdds, maxEvents |-> MaxEvents, maxTasks |-> MaxTasks, maxAttemptCount |-> MaxAttemptCount,
     maxMetricRows |-> MaxMetricRows]

Next == NextOver(MainInputs)

StoredInputs == [MainInputs EXCEPT !.instances = {"i1"}]

NextStored == NextOver(StoredInputs)

Spec == Init /\ [][Next]_vars

\* A database that already holds rows when the process starts: the primary
\* subscription of i1 (max_retries 3) and the record of a delivery to it
\* that failed three times, with the metrics of those three attempts.
StoredEvent == <<"ev", 0, PrimaryID>>

StoredWebhook ==
    [instance_id |-> "i1", webhook_id |-> PrimaryID, url |-> "http://h",
     secret |-> "s1", events |-> MarshalStrings(<<"*">>), is_active |-> TRUE,
     max_retries |-> 3, timeout |-> DefaultTimeout]

StoredLog ==
    [webhook_id |-> PrimaryID, instance_id |-> "i1", event_id |-> StoredEvent,
     event_type |-> "message.received",
     payload |-> MarshalPayload(EventPayload("i1", "message.received", 0)),
     status_code |-> 500, attempt_count |-> 3, is_success |-> FALSE,
     error_message |-> NoError]

InitStored ==
    /\ webhooks = {StoredWebhook}
    /\ metrics = {[NewMetricsRow(1, PrimaryID, "i1") EXCEPT !.total_sent = 3,
                                                            !.total_failed = 3]}
    /\ logs = [e \in {StoredEvent} |-> StoredLog]
    /\ tasks = EmptyLogs
    /\ wire = {}
    /\ resp = NoResp
    /\ nextId = [hook |-> 1, metric |-> 2, event |-> 1]
    /\ callConfigs = {}
    /\ calls = NoCall

SpecStored == InitStored /\ [][NextStored]_vars

\* A subscriber endpoint that answers 500 to every request.
DownInputs == [MainInputs EXCEPT !.instances = {"i1"}, !.endpoint = {"err500"}]

SpecDown == Init /\ [][NextOver(DownInputs)]_vars

\* Requests that store a negative or a lowered max_retries.
RetriesInputs ==
    [MainInputs EXCEPT !.instances = {"i1"},
                       !.configure = {Request(<<"*">>, "s1", 3), Request(<<"*">>, "s1", -1)},
                       !.update = {Update(<<>>, "nil", 1)}]

SpecRetries == Init /\ [][NextOver(RetriesInputs)]_vars

\* The registry alone, with enough AddWebhook calls to reach the cap.
MaxAddsRegistry == 10

NextRegistry ==
    \/ \E req \in MainInputs.configure :
          /\ ConfigureWebhook("i1", req)
          /\ NoCallStep
    \/ \E req \in MainInputs.add :
          /\ nextId.hook <= MaxAddsRegistry
          /\ AddWebhook("i1", req)
          /\ NoCallStep
    \/ \E wid \in {PrimaryID, HookUuid(1), HookUuid(2)} :
          /\ DeleteWebhook("i1", wid)
          /\ NoCallStep

SpecRegistry == Init /\ [][NextRegistry]_vars

\* calculateBackoff on its own: a goroutine whose attempt has just failed,
\* for every attempt number up to MaxBackoffAttempt.
MaxBackoffAttempt == 64

BackoffFrame(attempt) ==
    [NewTask([StoredWebhook EXCEPT !.max_retries = attempt + 1],
             EventPayload("i1", "message.received", 1), 1)
        EXCEPT !.attempt = attempt, !.pc = "decide",
               !.log.attempt_count = attempt, !.log.status_code = 500]

InitBackoff ==
    /\ webhooks = {}
    /\ metrics = {}
    /\ logs = EmptyLogs
    /\ \E attempt \in 1..MaxBackoffAttempt :
          tasks = [t \in {<<1, PrimaryID>>} |-> BackoffFrame(attempt)]
    /\ wire = {}
    /\ resp = NoResp
    /\ nextId = [hook |-> 1, metric |-> 1, event |-> 2]
    /\ callConfigs = {}
    /\ calls = NoCall

NextBackoff ==
    \E t \in DOMAIN tasks :
        /\ tasks[t].pc = "decide"
        /\ sendWebhookEvent(t, "err500")
        /\ NoCallStep

SpecBackoff == InitBackoff /\ [][NextBackoff]_vars

\* The call policy on its own: settings requests, call offers from a
\* whitelisted and a non-whitelisted caller inside and outside the
\* schedule window, manual rejects.
MaxCalls == 2

Present(v) == [present |-> TRUE, value |-> v]

Absent == [present |-> FALSE, value |-> <<>>]

CallRejectRequests ==
    [auto_reject : BOOLEAN,
     whitelist_numbers : {Absent, Present(<<"X">>)},
     custom_messages : {Absent, Present(<< <<"default", "busy">> >>)},
     schedule_enabled : BOOLEAN,
     schedule_config : {Absent, Present(<<9, 18>>)}]

Clock == {10, 20}

NextCalls ==
    \/ \E req \in CallRejectRequests : UpdateCallSettings("i1", req)
    \/ \E req \in [caller_id : {"", "Y"}, message : {"", "later"}] :
          RejectCall("i1", req)
    \/ \E caller \in {"X", "Y"}, now \in Clock :
          /\ nextId.event <= MaxCalls
          /\ EventHandler("i1", "CallOffer", caller, now)

SpecCalls == Init /\ [][NextCalls]_vars

\* Two events for one instance, so that two delivery tasks of one
\* subscription run at the same time; the endpoint answers 200.
RaceInputs ==
    [MainInputs EXCEPT !.instances = {"i1"}, !.endpoint = {"ok200"},
                       !.events = {"Message"}, !.maxEvents = MaxEvents + 1]

SpecRace == Init /\ [][NextOver(RaceInputs)]_vars

\* updateWebhookMetrics on its own: attempts of one subscription recorded
\* one after the other, with response times of 0, 4 and 8 ms.
ResponseTimes == {0, 4, 8}

NextAvg ==
    \E success \in BOOLEAN, responseTime \in ResponseTimes :
        /\ \A m \in metrics : m.total_sent < MaxSamples
        /\ updateWebhookMetrics(PrimaryID, "i1", success, responseTime)
        /\ NoCallStep

SpecAvg == Init /\ [][NextAvg]_vars

\* The goroutines under the Go scheduler: every goroutine that can take a
\* step is eventually run, time.Sleep returns and the executor returns.
\* The subscriptions of i1 are reconfigured (max_retries 3, -1), updated
\* (deactivated, max_retries 1) and deleted while the tasks run.
TaskInputs ==
    [RetriesInputs EXCEPT !.update = {Update(<<>>, "false", 1)},
                          !.events = {"Message"},
                          !.endpoint = {"ok200"},
                          !.maxMetricRows = 1 + MaxAdds + MaxTasks]

TaskIds ==
    (1..MaxEvents) \X ({PrimaryID} \cup {HookUuid(n) : n \in 1..MaxAdds})

\* `go ws.sendWebhookEvent(webhook, eventPayload)`: the goroutine t
Goroutine(t) ==
    /\ t \in DOMAIN tasks
    /\ \E ep \in TaskInputs.endpoint :
          /\ NeedsMetricsRow(t) => nextId.metric <= TaskInputs.maxMetricRows
          /\ sendWebhookEvent(t, ep)
          /\ NoCallStep

NextTasks ==
    \/ \E req \in TaskInputs.configure :
          /\ FindWebhook("i1", PrimaryID) = {} => nextId.metric <= TaskInputs.maxMetricRows
          /\ ConfigureWebhook("i1", req)
          /\ NoCallStep
    \/ \E req \in TaskInputs.add :
          /\ nextId.hook <= TaskInputs.maxAdds
          /\ nextId.metric <= TaskInputs.maxMetricRows
          /\ AddWebhook("i1", req)
          /\ NoCallStep
    \/ \E wid \in WebhookIds, req \in TaskInputs.update :
          /\ UpdateWebhook("i1", wid, req)
          /\ NoCallStep
    \/ \E wid \in WebhookIds :
          /\ DeleteWebhook("i1", wid)
          /\ NoCallStep
    \/ \E raw \in TaskInputs.events :
          /\ nextId.event <= TaskInputs.maxEvents
          /\ Cardinality(DOMAIN tasks) + Cardinality(Matching("i1", EventTypeOf(raw)))
                <= TaskInputs.maxTasks
          /\ EventHandler("i1", raw, "X", 10)
    \/ \E t \in DOMAIN tasks : Goroutine(t)

SpecTasks ==
    /\ Init
    /\ [][NextTasks]_vars
    /\ \A t \in TaskIds : WF_vars(Goroutine(t))

\* ConfigureWebhook called with a secret, with another one and without.
SecretInputs ==
    [MainInputs EXCEPT !.instances = {"i1"},
                       !.configure = {Request(<<"*">>, "s1", 3),
                                      Request(<<"*">>, "s2", 3),
                                      Request(<<"*">>, "", 3)}]

SpecSecrets == Init /\ [][NextOver(SecretInputs)]_vars

\* The stored record, its last attempt having found the connection
\* refused: status 0 and the transport error in error_message.
StoredLogRefused ==
    [StoredLog EXCEPT !.status_code = 0, !.error_message = "error sending request"]

InitStoredRefused ==
    /\ webhooks = {StoredWebhook}
    /\ metrics = {[NewMetricsRow(1, PrimaryID, "i1") EXCEPT !.total_sent = 3,
                                                            !.total_failed = 3]}
    /\ logs = [e \in {StoredEvent} |-> StoredLogRefused]
    /\ tasks = EmptyLogs
    /\ wire = {}
    /\ resp = NoResp
    /\ nextId = [hook |-> 1, metric |-> 2, event |-> 1]
    /\ callConfigs = {}
    /\ calls = NoCall

SpecStoredRefused == InitStoredRefused /\ [][NextStored]_vars

-----------------------------------------------------------------------------
(* Properties *)

\* C1: every metrics row keeps total_sent = total_success + total_failed,
\* whatever interleaving of delivery attempts and manual replays wrote it.
C1_MetricsBalanced ==
    \A m \in metrics : m.total_sent = m.total_success + m.total_failed

\* The stored row of three failures, counted once more by a delivery task
\* and once more by a manual replay.
C1_CountedByLoopAndReplay ==
    \E m \in metrics :
        /\ m.total_sent = 5
        /\ m.total_success = 2
        /\ m.total_failed = 3

\* An event whose delivery has succeeded: its record says so, or the
\* goroutine that delivers it has seen the success.
Succeeded(e) ==
    \/ e \in DOMAIN logs /\ logs[e].is_success
    \/ \E t \in DOMAIN tasks : tasks[t].eventID = e /\ tasks[t].success

\* C2: once an attempt for an event has succeeded no step makes another
\* attempt for it and its record stays as it is; RetryEvent on such a
\* record is rejected with 400, sends nothing and leaves the record and the
\* metrics unchanged.
C2_SuccessIsTerminal ==
    [][\A e \in DOMAIN logs \cup {tasks[t].eventID : t \in DOMAIN tasks} :
          Succeeded(e) =>
             /\ \A a \in wire' : a.event_id # e
             /\ (e \in DOMAIN logs /\ e \in DOMAIN logs') =>
                   (logs[e].is_success => logs'[e] = logs[e])
             /\ \A inst \in Instances, ep \in EndpointBehaviours :
                   (FindLog(inst, e) # {} /\ logs[e].is_success
                       /\ RetryEvent(inst, e, ep)) =>
                      /\ resp' = Resp("RetryEvent", 400)
                      /\ wire' = {}
                      /\ logs' = logs
                      /\ metrics' = metrics]_vars

\* A replay of a successful record has just been rejected.
C2_ReplayRejected ==
    /\ resp = Resp("RetryEvent", 400)
    /\ wire = {}
    /\ \E e \in DOMAIN logs : logs[e].is_success

\* C3: with max_retries 3 and an endpoint that always fails, a finished
\* delivery task leaves its record with is_success false and attempt_count
\* 3, and the subscription's metrics with total_failed 1.
C3_ThreeAttemptsThenFailed ==
    \A t \in DOMAIN tasks :
        (tasks[t].pc = "done" /\ tasks[t].webhook.max_retries = 3) =>
            /\ ~tasks[t].log.is_success
            /\ tasks[t].log.attempt_count = 3
            /\ \A m \in MatchingMetrics(tasks[t].webhook.webhook_id,
                                        tasks[t].webhook.instance_id) :
                  m.total_failed = 1

\* C4: RetryEvent on a failed record whose subscription exists and whose
\* endpoint answers 2xx makes exactly one attempt, sets is_success, adds
\* one to attempt_count, and updates the same record: no record is created
\* and no other record changes.
C4_ReplayRevives ==
    [][\A inst \in Instances, e \in DOMAIN logs :
          (/\ FindLog(inst, e) # {}
           /\ ~logs[e].is_success
           /\ FindWebhook(inst, logs[e].webhook_id) # {}
           /\ RetryEvent(inst, e, "ok200")) =>
              /\ Cardinality(wire') = 1
              /\ \A a \in wire' : a.by = "retry" /\ a.event_id = e
              /\ DOMAIN logs' = DOMAIN logs
              /\ logs'[e].is_success
              /\ logs'[e].attempt_count = logs[e].attempt_count + 1
              /\ \A o \in DOMAIN logs \ {e} : logs'[o] = logs[o]]_vars

\* The stored record, exhausted at attempt_count 3, revived by one replay.
C4_RevivedAtFour ==
    /\ resp = Resp("RetryEvent", 200)
    /\ \E a \in wire : a.by = "retry" /\ a.event_id = StoredEvent
    /\ logs[StoredEvent].is_success
    /\ logs[StoredEvent].attempt_count = 4

Min(a, b) == IF a < b THEN a ELSE b

\* C5: the pause after failed attempt number attempt is
\* min(2^(attempt-1), 32) seconds, for every attempt >= 1.
C5_BackoffDoublesToCap ==
    \A t \in DOMAIN tasks :
        tasks[t].pc = "sleep" =>
            tasks[t].wait = MulPow2(Second, Min(tasks[t].attempt - 1, 5))

\* The subscriptions an event of type eventType of instance inst is due to:
\* active, of that instance, with the type or "*" in the stored filter.
Due(inst, eventType) ==
    {w \in webhooks :
        /\ w.instance_id = inst
        /\ w.is_active
        /\ w.events.kind = "array"
        /\ \E k \in 1..Len(w.events.items) :
              w.events.items[k] = eventType \/ w.events.items[k] = "*"}

\* C6: for a recognized event the dispatcher starts exactly one delivery
\* task for each active subscription of the event's instance whose filter
\* holds the event type or "*", and none for any other subscription.
C6_OneTaskPerDueSubscription ==
    [][\A inst \in Instances, raw \in RawEvents :
          (EventTypeOf(raw) # "" /\ processEvent(inst, raw)) =>
             LET started == DOMAIN tasks' \ DOMAIN tasks
             IN  /\ started = {<<nextId.event, w.webhook_id>> :
                                   w \in Due(inst, EventTypeOf(raw))}
                 /\ Cardinality(started) = Cardinality(Due(inst, EventTypeOf(raw)))
                 /\ \A t \in started :
                       /\ tasks'[t].webhook \in Due(inst, EventTypeOf(raw))
                       /\ tasks'[t].payload.event = EventTypeOf(raw)
                       /\ tasks'[t].payload.instance_id = inst
                       /\ tasks'[t].pc = "attempt"
                 /\ \A t \in DOMAIN tasks : tasks'[t] = tasks[t]]_vars

\* A call.incoming event has a task for the "*" subscription and none for
\* the active ["message.received"] subscription of the same instance.
C6_CallSkipsMessageFilter ==
    \E t \in DOMAIN tasks, w \in webhooks :
        /\ tasks[t].payload.event = "call.incoming"
        /\ tasks[t].webhook.events = MarshalStrings(<<"*">>)
        /\ w.instance_id = tasks[t].webhook.instance_id
        /\ w.is_active
        /\ w.events = MarshalStrings(<<"message.received">>)
        /\ <<t[1], w.webhook_id>> \notin DOMAIN tasks

RowsOf(table, inst, wid) ==
    {r \in table : r.instance_id = inst /\ r.webhook_id = wid}

\* C7: DeleteWebhook on the id "primary" is rejected and changes nothing;
\* on another id of an existing subscription it removes the subscription,
\* its metrics and its logs, and leaves every other row as it was.
C7_DeleteRemovesOnlyItsRows ==
    [][\A inst \in Instances, wid \in WebhookIds :
          DeleteWebhook(inst, wid) =>
             IF wid = PrimaryID
             THEN /\ resp'.code = 400
                  /\ webhooks' = webhooks
                  /\ metrics' = metrics
                  /\ logs' = logs
             ELSE FindWebhook(inst, wid) # {} =>
                  /\ resp'.code = 200
                  /\ RowsOf(webhooks', inst, wid) = {}
                  /\ RowsOf(metrics', inst, wid) = {}
                  /\ RowsOf({logs'[e] : e \in DOMAIN logs'}, inst, wid) = {}
                  /\ webhooks' = webhooks \ RowsOf(webhooks, inst, wid)
                  /\ metrics' = metrics \ RowsOf(metrics, inst, wid)
                  /\ \A e \in DOMAIN logs :
                        (logs[e].instance_id # inst \/ logs[e].webhook_id # wid) =>
                           (e \in DOMAIN logs' /\ logs'[e] = logs[e])]_vars

\* A secondary subscription that had delivered an event has just been
\* deleted: its record is gone, the primary's record of the same event
\* and the primary's metrics are still there.
C7_DeletedWithItsLog ==
    /\ resp = Resp("DeleteWebhook", 200)
    /\ \E t \in DOMAIN tasks :
          /\ t[2] # PrimaryID
          /\ tasks[t].success
          /\ tasks[t].eventID \notin DOMAIN logs
          /\ RowsOf(webhooks, tasks[t].webhook.instance_id, t[2]) = {}
          /\ RowsOf(metrics, tasks[t].webhook.instance_id, t[2]) = {}
          /\ EventUuid(t[1], PrimaryID) \in DOMAIN logs
          /\ RowsOf(metrics, tasks[t].webhook.instance_id, PrimaryID) # {}

C9_AtMostTenSubscriptions ==
    \A inst \in Instances :
        Cardinality(WebhooksOf(inst)) <= MaxWebhooksPerInstance

Secrets == {"s1", "s2"} \cup GeneratedSecrets

\* C10: every delivery attempt, by the retry loop, TestWebhook or
\* RetryEvent, carries X-Webhook-Signature = "sha256=" + hex of the
\* HMAC-SHA256 of the exact body under the subscription's secret, so a
\* receiver holding that secret accepts it and one holding another secret
\* does not.
C10_EveryAttemptSigned ==
    \A a \in wire :
        /\ a.header = SignatureHeader(a.secret, a.body)
        /\ ReceiverAccepts(a.secret, a.body, a.header)
        /\ \A other \in Secrets \ {a.secret} :
              ~ReceiverAccepts(other, a.body, a.header)

\* What one attempt against an endpoint of behaviour ep has to report.
Reported(log, ep) ==
    /\ log.is_success = (ep = "ok200")
    /\ log.status_code = (CASE ep = "ok200"   -> 200
                            [] ep = "err500"  -> 500
                            [] ep = "refused" -> 0)
    /\ ep = "refused" => log.error_message # NoError

\* A replay that gets as far as the executor.
ReplayAttempts(inst, e) ==
    /\ FindLog(inst, e) # {}
    /\ ~logs[e].is_success
    /\ FindWebhook(inst, logs[e].webhook_id) # {}

\* C11: one delivery attempt reports success exactly when the endpoint
\* answers 2xx, and a transport error as success=false, status_code 0 and a
\* non-empty error; this holds for the attempts of the retry loop as for
\* those of RetryEvent, and each is a single request.
C11_OutcomeIsTheEndpoints ==
    [][/\ \A t \in DOMAIN tasks, ep \in EndpointBehaviours :
             (/\ tasks[t].pc = "attempt"
              /\ LoopGuard(tasks[t].attempt, tasks[t].webhook.max_retries)
              /\ sendWebhookEvent(t, ep)) =>
                 /\ Reported(logs'[tasks[t].eventID], ep)
                 /\ Cardinality(wire') = 1
       /\ \A inst \in Instances, e \in DOMAIN logs, ep \in EndpointBehaviours :
             (ReplayAttempts(inst, e) /\ RetryEvent(inst, e, ep)) =>
                 /\ Reported(logs'[e], ep)
                 /\ Cardinality(wire') = 1]_vars

\* The last step ran the call policy evaluator on a call offer.
CallEvaluated == calls.decision \notin {"", "manual"}

InWhitelist(config, callerJID) ==
    /\ config.whitelist_numbers.kind = "array"
    /\ \E k \in 1..Len(config.whitelist_numbers.items) :
          config.whitelist_numbers.items[k] = callerJID

\* C12: with a policy that has auto_reject=true and a whitelist holding X,
\* a call offer from X causes no reject action, and a call offer from the
\* non-whitelisted Y causes exactly one reject action handed to the
\* protocol client, carrying the policy's configured default message.
C12_WhitelistedSparedOthersRejected ==
    \A c \in CallConfigOf(calls.instance_id) :
        (/\ CallEvaluated
         /\ c.auto_reject
         /\ ~c.schedule_enabled
         /\ InWhitelist(c, "X") /\ ~InWhitelist(c, "Y")) =>
            /\ calls.caller = "X" => calls.rejects = {}
            /\ calls.caller = "Y" =>
                  /\ Cardinality(calls.rejects) = 1
                  /\ \A r \in calls.rejects :
                        r.message = ResolveMessage(calls.instance_id, "")

\* The time now lies outside the window of the stored schedule.
OutsideSchedule(config, now) ==
    /\ config.schedule_config.kind = "object"
    /\ \/ now < config.schedule_config.items[1]
       \/ now >= config.schedule_config.items[2]

ShouldReject(inst, callerJID, now) ==
    \E c \in CallConfigOf(inst) :
        /\ c.auto_reject
        /\ ~InWhitelist(c, callerJID)
        /\ ~(c.schedule_enabled /\ OutsideSchedule(c, now))

\* C18: on a call offer the evaluator decides to reject exactly when the
\* instance has a policy, auto_reject is true, the caller is not in the
\* whitelist, and it is not the case that schedule_enabled holds with the
\* current time outside the schedule; in every other case it takes no
\* action.
C18_RejectExactlyWhenPolicySays ==
    CallEvaluated =>
        /\ (calls.decision = "reject") =
              ShouldReject(calls.instance_id, calls.caller, calls.at)
        /\ calls.decision # "reject" => calls.rejects = {}

\* C13: after ConfigureFilters has set event_types = S on an active
\* subscription, the dispatcher starts a delivery task for it for every
\* later event whose type is in S (every event when S holds "*") and for
\* no event whose type is outside S.
C13_FiltersDecideDispatch ==
    [][\A inst \in Instances, raw \in RawEvents :
          (EventTypeOf(raw) # "" /\ processEvent(inst, raw)) =>
             \A w \in ActiveWebhooks(inst) :
                w.events.kind = "object" =>
                   ((<<nextId.event, w.webhook_id>> \in DOMAIN tasks') =
                       (\E k \in 1..Len(w.events.items) :
                           w.events.items[k] \in {EventTypeOf(raw), "*"}))]_vars

\* C14: a subscription set to is_active=false by UpdateWebhook stays in
\* the registry and is still listed, and no event processed while it is
\* inactive starts a delivery task for it.
C14_InactiveKeptButNotDispatched ==
    [][/\ \A inst \in Instances, wid \in WebhookIds, req \in MainInputs.update :
             (/\ FindWebhook(inst, wid) # {}
              /\ req.is_active = "false"
              /\ UpdateWebhook(inst, wid, req)) =>
                 /\ Cardinality(webhooks') = Cardinality(webhooks)
                 /\ \E w \in ListWebhooks(inst)' :
                       w.webhook_id = wid /\ ~w.is_active
       /\ \A inst \in Instances, raw \in RawEvents :
             processEvent(inst, raw) =>
                \A w \in webhooks :
                   ~w.is_active =>
                      \A t \in DOMAIN tasks' \ DOMAIN tasks :
                         /\ t[2] # w.webhook_id
                         /\ tasks'[t].webhook.is_active]_vars

\* A message event has just been dispatched to the primary subscription
\* while the deactivated ["message.received"] subscription of the same
\* instance, still in the registry, got no task.
C14_InactiveSkipped ==
    /\ resp = NoResp
    /\ nextId.event = 2
    /\ \E t \in DOMAIN tasks, w \in webhooks :
          /\ \A u \in DOMAIN tasks : tasks[u].pc = "attempt"
          /\ tasks[t].payload.event = "message.received"
          /\ w \in ListWebhooks(tasks[t].webhook.instance_id)
          /\ ~w.is_active
          /\ w.events = MarshalStrings(<<"message.received">>)
          /\ <<t[1], w.webhook_id>> \notin DOMAIN tasks

\* C15: ConfigureWebhook with valid input succeeds for any instance
\* whatever subscriptions other instances hold: afterwards the instance
\* has exactly one subscription with id "primary", and the primary
\* subscriptions of the other instances are unchanged.
C15_PrimaryPerInstance ==
    [][\A inst \in Instances, req \in MainInputs.configure :
          (BindOK(req) /\ ConfigureWebhook(inst, req)) =>
             /\ resp'.code = 200
             /\ Cardinality(RowsOf(webhooks', inst, PrimaryID)) = 1
             /\ \A other \in Instances \ {inst} :
                   RowsOf(webhooks', other, PrimaryID) =
                      RowsOf(webhooks, other, PrimaryID)]_vars

RECURSIVE SumAttempts(_)
SumAttempts(events) ==
    IF events = {} THEN 0
    ELSE LET e == CHOOSE x \in events : TRUE
         IN  logs[e].attempt_count + SumAttempts(events \ {e})

\* The delivery records of a subscription.
RecordsOf(w) ==
    {e \in DOMAIN logs : /\ logs[e].webhook_id = w.webhook_id
                         /\ logs[e].instance_id = w.instance_id}

\* No delivery task is between an attempt and the end of its metrics update.
AllRecorded == \A t \in DOMAIN tasks : tasks[t].pc = "done"

\* C16: metrics updates lose no increment under concurrency: when the N
\* attempts made for a subscription have all recorded their outcome, its
\* total_sent is N, its total_success the number of successful attempts
\* and its total_failed the number of failed ones.
C16_NoLostIncrement ==
    AllRecorded =>
        \A w \in webhooks :
            \A m \in MatchingMetrics(w.webhook_id, w.instance_id) :
                /\ m.total_sent = SumAttempts(RecordsOf(w))
                /\ m.total_success =
                      Cardinality({e \in RecordsOf(w) : logs[e].is_success})
                /\ m.total_failed = m.total_sent - m.total_success

C19_TwoPointAverage ==
    [][\A success \in BOOLEAN, responseTime \in ResponseTimes :
          updateWebhookMetrics(PrimaryID, "i1", success, responseTime) =>
             \A after \in metrics' :
                IF MatchingMetrics(PrimaryID, "i1") = {}
                THEN after.avg_response_time = responseTime * AvgScale
                ELSE 2 * after.avg_response_time =
                        FirstMetrics(PrimaryID, "i1").avg_response_time
                           + responseTime * AvgScale]_vars

\* The attempts the loop of a finished task has made: the loop counter
\* stands at the attempt it was refused, or at the attempt that succeeded.
AttemptsMade(t) ==
    IF tasks[t].success THEN tasks[t].attempt ELSE tasks[t].attempt - 1

\* C20: every started delivery task terminates, and only by a successful
\* attempt or by having made max_retries failed attempts, max_retries
\* being the value read at dispatch; an update, deactivation or deletion
\* of its subscription while it runs neither cancels it nor changes its
\* number of attempts.
C20_RunsToSuccessOrExhaustion ==
    /\ \A t \in TaskIds :
          (t \in DOMAIN tasks) ~> (t \in DOMAIN tasks /\ tasks[t].pc = "done")
    /\ [](\A t \in DOMAIN tasks :
             tasks[t].pc = "done" =>
                \/ tasks[t].success
                \/ AttemptsMade(t) = tasks[t].webhook.max_retries)
    /\ [][webhooks' # webhooks =>
             \A t \in DOMAIN tasks : t \in DOMAIN tasks' /\ tasks'[t] = tasks[t]]_vars

\* The parts of C20 the code keeps: every started task reaches the end of
\* sendWebhookEvent, and no handler touches a running task.
C20_EveryTaskReturns ==
    /\ \A t \in TaskIds :
          (t \in DOMAIN tasks) ~> (t \in DOMAIN tasks /\ tasks[t].pc = "done")
    /\ [][webhooks' # webhooks =>
             \A t \in DOMAIN tasks : t \in DOMAIN tasks' /\ tasks'[t] = tasks[t]]_vars

C22_DispatchDoesNotWait ==
    [][\A inst \in Instances, raw \in RawEvents :
          (processEvent(inst, raw) /\ EventTypeOf(raw) # "") =>
             /\ wire' = {}
             /\ \A t \in DOMAIN tasks : t \in DOMAIN tasks' /\ tasks'[t] = tasks[t]
             /\ {t[2] : t \in DOMAIN tasks' \ DOMAIN tasks} =
                   {w.webhook_id : w \in Matching(inst, EventTypeOf(raw))}
             /\ \A t \in DOMAIN tasks' \ DOMAIN tasks :
                   /\ tasks'[t].pc = "attempt"
                   /\ tasks'[t].log.attempt_count = 0
                   /\ tasks'[t].eventID \notin DOMAIN logs']_vars

\* The dispatcher has finished two envelopes while the task of the first
\* has not returned and the task of the second has not yet attempted.
C22_LaterEnvelopeWhileAttempting ==
    \E t1 \in DOMAIN tasks, t2 \in DOMAIN tasks :
        /\ t1[1] < t2[1]
        /\ nextId.event > t2[1]
        /\ tasks[t1].pc \notin {"done"}
        /\ tasks[t2].pc = "attempt"

\* C23: a delivery task owns exactly one record.  Its first attempt
\* creates the row, every later attempt of the loop and every manual
\* replay writes that same row in place; so there is never more than one
\* row for an (event_id, webhook_id) and no two rows share an event_id.
C23_OneRecordPerDelivery ==
    [][/\ \A e \in DOMAIN logs' : logs'[e].event_id = e
       /\ \A t1 \in DOMAIN tasks', t2 \in DOMAIN tasks' :
             t1 # t2 => tasks'[t1].eventID # tasks'[t2].eventID
       /\ \A t \in DOMAIN tasks' \ DOMAIN tasks : tasks'[t].eventID \notin DOMAIN logs
       /\ \A e \in DOMAIN logs' \ DOMAIN logs :
             \E a \in wire' : a.by = "loop" /\ a.n = 1 /\ a.event_id = e
       /\ \A a \in wire' :
             /\ (a.by = "loop" /\ a.n = 1) =>
                   /\ a.event_id \notin DOMAIN logs
                   /\ DOMAIN logs' = DOMAIN logs \cup {a.event_id}
                   /\ logs'[a.event_id].webhook_id = a.webhook_id
             /\ (a.by = "retry" \/ (a.by = "loop" /\ a.n > 1)) =>
                   /\ a.event_id \in DOMAIN logs
                   /\ DOMAIN logs' = DOMAIN logs
                   /\ logs'[a.event_id].webhook_id = logs[a.event_id].webhook_id
                   /\ logs'[a.event_id].payload = logs[a.event_id].payload
                   /\ \A e \in DOMAIN logs \ {a.event_id} : logs'[e] = logs[e]]_vars

\* A replay has just written the stored record in place (its fourth
\* attempt) while the table also holds the record a delivery task created.
C23_ReplayedInPlace ==
    \E a \in wire :
        /\ a.by = "retry"
        /\ logs[a.event_id].attempt_count = 4
        /\ \E t \in DOMAIN tasks :
              /\ tasks[t].eventID \in DOMAIN logs
              /\ tasks[t].eventID # a.event_id
              /\ logs[tasks[t].eventID].webhook_id = logs[a.event_id].webhook_id

\* C24: an event of a kind the type switch does not know is dropped: it
\* starts no delivery task, creates or changes no log or metrics row,
\* leads to no evaluation of the call policy and to no error.
C24_UnknownEventDropped ==
    [][\A inst \in Instances, caller \in MainInputs.callers, now \in MainInputs.clock :
          EventHandler(inst, "Unknown", caller, now) =>
             /\ tasks' = tasks
             /\ logs' = logs
             /\ metrics' = metrics
             /\ webhooks' = webhooks
             /\ nextId' = nextId
             /\ callConfigs' = callConfigs
             /\ calls' = NoCall
             /\ resp' = NoResp
             /\ wire' = {}]_vars

\* An event has been handled and dropped although a subscription of the
\* instance takes every event type: no handler answered in the last step,
\* no task exists and no recognized event has been counted.
C24_DroppedDespiteWildcard ==
    /\ \E inst \in Instances : Matching(inst, "unknown") # {}
    /\ resp = NoResp
    /\ wire = {}
    /\ calls = NoCall
    /\ DOMAIN tasks = {}
    /\ DOMAIN logs = {}
    /\ nextId.event = 1

\* C25: the secret ConfigureWebhook returns in its response is the secret
\* stored for the primary subscription, the one its later deliveries are
\* signed with, when the call creates the subscription and when it
\* reconfigures an existing one, with or without a secret in the request.
C25_ReturnedSecretIsStored ==
    [][\A inst \in Instances, req \in SecretInputs.configure :
          (ConfigureWebhook(inst, req) /\ resp'.code = 200) =>
             /\ FindWebhook(inst, PrimaryID)' # {}
             /\ \A w \in FindWebhook(inst, PrimaryID)' : w.secret = resp'.secret]_vars

\* C26: every delivery task the dispatcher starts makes at least one
\* delivery attempt and writes a record, whatever max_retries value the
\* handlers accepted and stored for its subscription, a negative one given
\* at creation included.
C26_EveryTaskAttempts ==
    \A t \in DOMAIN tasks :
        tasks[t].pc = "done" =>
           /\ tasks[t].log.attempt_count >= 1
           /\ \/ tasks[t].eventID \in DOMAIN logs
              \/ FindWebhook(tasks[t].webhook.instance_id,
                             tasks[t].webhook.webhook_id) = {}

\* The attempts the last step made for the record e.
AttemptsFor(e, made) == {a \in made : a.by \in {"loop", "retry"} /\ a.event_id = e}

DeletedIds ==
    {wid \in {HookUuid(n) : n \in 1..(nextId.hook - 1)} : ~WebhookIdTaken(wid)}

\* C28: once DeleteWebhook has committed for a subscription, no metrics
\* row and no log row with its webhook_id exists in any later state, also
\* when delivery tasks of the subscription were under way at the deletion.
C28_DeletedLeavesNoRows ==
    \A wid \in DeletedIds :
        /\ \A m \in metrics : m.webhook_id # wid
        /\ \A e \in DOMAIN logs : logs[e].webhook_id # wid

=============================================================================
